---- MODULE Spec2Model ----
(***************************************************************************)
(* Cipher-suite registry and negotiation of rustls (src/rustls/src/        *)
(* suites.rs): the catalog ALL_CIPHERSUITES, the queries of                *)
(* SupportedCipherSuite, the two negotiation functions and the filters;    *)
(* and the handshake loop of the example client                            *)
(* (src/rustls/examples/internal/trytls_shim.rs).                          *)
(*                                                                         *)
(* `call` holds the name of the function called and its arguments (under   *)
(* the parameter names of the source), `ret` its return value once         *)
(* pc = "return", and `sign_of` the scheme-to-algorithm table of           *)
(* msgs::handshake that suites.rs imports.  `client` is what communicate   *)
(* observes of its ClientSession and socket; the functions of suites.rs    *)
(* have no session.                                                        *)
(***************************************************************************)
EXTENDS Naturals, Sequences, FiniteSets

VARIABLES pc, call, ret, sign_of, client

vars == <<pc, call, ret, sign_of, client>>

(***************************************************************************)
(* Bounds of the model.                                                    *)
(***************************************************************************)
\* longest client_suites list (offered suite ids) given to choose_*
MaxOffered == 2
\* longest server_suites list (local descriptors) given to choose_*
MaxLocal == 2
\* longest list of descriptors given to reduce_* / compatible_*
MaxSuites == 3
\* longest list of offered signature schemes given to resolve_sig_schemes
MaxSchemes == 2
\* most chunks of TLS output a session holds for write_tls at a time
MaxPending == 2
\* most non-empty reads of TLS input the peer's socket delivers
MaxReads == 3

(***************************************************************************)
(* Option<T>                                                               *)
(***************************************************************************)
None == [some |-> FALSE]
Some(x) == [some |-> TRUE, val |-> x]
is_some(o) == o.some
is_none(o) == ~o.some

(***************************************************************************)
(* Enumerations of msgs::enums that suites.rs names.                       *)
(***************************************************************************)
ProtocolVersion == {"SSLv3", "TLSv1_0", "TLSv1_1", "TLSv1_2", "TLSv1_3"}

HashAlgorithm == {"SHA256", "SHA384"}

SignatureAlgorithm == {"RSA", "DSA", "ECDSA", "ED25519", "Unknown0"}

TLS12_ECDSA_SCHEMES ==
    << "ED25519",
       "ECDSA_NISTP521_SHA512",
       "ECDSA_NISTP384_SHA384",
       "ECDSA_NISTP256_SHA256" >>

TLS12_RSA_SCHEMES ==
    << "RSA_PSS_SHA512",
       "RSA_PSS_SHA384",
       "RSA_PSS_SHA256",
       "RSA_PKCS1_SHA512",
       "RSA_PKCS1_SHA384",
       "RSA_PKCS1_SHA256" >>

Range(s) == {s[i] : i \in 1..Len(s)}

\* the schemes of the two static lists, and one scheme a peer may offer
\* that no suite lists
SignatureScheme ==
    Range(TLS12_ECDSA_SCHEMES) \cup Range(TLS12_RSA_SCHEMES) \cup {"RSA_PKCS1_SHA1"}

\* DecomposedSignatureScheme::sign is defined in msgs::handshake.  The RSA
\* and ECDSA schemes name their algorithm; what ED25519 maps to is left
\* open: either SignatureAlgorithm::ED25519 or the catch-all Unknown(0).
SignTables ==
    { [s \in SignatureScheme |->
         IF s \in Range(TLS12_RSA_SCHEMES) \cup {"RSA_PKCS1_SHA1"} THEN "RSA"
         ELSE IF s = "ED25519" THEN ed
         ELSE "ECDSA"] : ed \in {"ED25519", "Unknown0"} }

sign(scheme) == sign_of[scheme]

(***************************************************************************)
(* The suite statics and the catalog.                                      *)
(***************************************************************************)
SupportedCipherSuite(suite, kx, sgn, bulk, hash, ekl, fil, enl, hkdf, aead, enc, dec) ==
    [ suite |-> suite, kx |-> kx, sign |-> sgn, bulk |-> bulk, hash |-> hash,
      enc_key_len |-> ekl, fixed_iv_len |-> fil, explicit_nonce_len |-> enl,
      hkdf_algorithm |-> hkdf, aead_algorithm |-> aead,
      build_tls12_encrypter |-> enc, build_tls12_decrypter |-> dec ]

TLS_ECDHE_ECDSA_WITH_CHACHA20_POLY1305_SHA256 ==
    SupportedCipherSuite("TLS_ECDHE_ECDSA_WITH_CHACHA20_POLY1305_SHA256", "ECDHE",
        Some(TLS12_ECDSA_SCHEMES), "CHACHA20_POLY1305", "SHA256", 32, 12, 0,
        "HKDF_SHA256", "CHACHA20_POLY1305",
        Some("build_tls12_chacha_encrypter"), Some("build_tls12_chacha_decrypter"))

TLS_ECDHE_RSA_WITH_CHACHA20_POLY1305_SHA256 ==
    SupportedCipherSuite("TLS_ECDHE_RSA_WITH_CHACHA20_POLY1305_SHA256", "ECDHE",
        Some(TLS12_RSA_SCHEMES), "CHACHA20_POLY1305", "SHA256", 32, 12, 0,
        "HKDF_SHA256", "CHACHA20_POLY1305",
        Some("build_tls12_chacha_encrypter"), Some("build_tls12_chacha_decrypter"))

TLS_ECDHE_RSA_WITH_AES_128_GCM_SHA256 ==
    SupportedCipherSuite("TLS_ECDHE_RSA_WITH_AES_128_GCM_SHA256", "ECDHE",
        Some(TLS12_RSA_SCHEMES), "AES_128_GCM", "SHA256", 16, 4, 8,
        "HKDF_SHA256", "AES_128_GCM",
        Some("build_tls12_gcm_128_encrypter"), Some("build_tls12_gcm_128_decrypter"))

TLS_ECDHE_RSA_WITH_AES_256_GCM_SHA384 ==
    SupportedCipherSuite("TLS_ECDHE_RSA_WITH_AES_256_GCM_SHA384", "ECDHE",
        Some(TLS12_RSA_SCHEMES), "AES_256_GCM", "SHA384", 32, 4, 8,
        "HKDF_SHA384", "AES_256_GCM",
        Some("build_tls12_gcm_256_encrypter"), Some("build_tls12_gcm_256_decrypter"))

TLS_ECDHE_ECDSA_WITH_AES_128_GCM_SHA256 ==
    SupportedCipherSuite("TLS_ECDHE_ECDSA_WITH_AES_128_GCM_SHA256", "ECDHE",
        Some(TLS12_ECDSA_SCHEMES), "AES_128_GCM", "SHA256", 16, 4, 8,
        "HKDF_SHA256", "AES_128_GCM",
        Some("build_tls12_gcm_128_encrypter"), Some("build_tls12_gcm_128_decrypter"))

TLS_ECDHE_ECDSA_WITH_AES_256_GCM_SHA384 ==
    SupportedCipherSuite("TLS_ECDHE_ECDSA_WITH_AES_256_GCM_SHA384", "ECDHE",
        Some(TLS12_ECDSA_SCHEMES), "AES_256_GCM", "SHA384", 32, 4, 8,
        "HKDF_SHA384", "AES_256_GCM",
        Some("build_tls12_gcm_256_encrypter"), Some("build_tls12_gcm_256_decrypter"))

TLS13_CHACHA20_POLY1305_SHA256 ==
    SupportedCipherSuite("TLS13_CHACHA20_POLY1305_SHA256", "BulkOnly",
        None, "CHACHA20_POLY1305", "SHA256", 32, 12, 0,
        "HKDF_SHA256", "CHACHA20_POLY1305", None, None)

TLS13_AES_256_GCM_SHA384 ==
    SupportedCipherSuite("TLS13_AES_256_GCM_SHA384", "BulkOnly",
        None, "AES_256_GCM", "SHA384", 32, 12, 0,
        "HKDF_SHA384", "AES_256_GCM", None, None)

TLS13_AES_128_GCM_SHA256 ==
    SupportedCipherSuite("TLS13_AES_128_GCM_SHA256", "BulkOnly",
        None, "AES_128_GCM", "SHA256", 16, 12, 0,
        "HKDF_SHA256", "AES_128_GCM", None, None)

ALL_CIPHERSUITES ==
    << TLS13_AES_256_GCM_SHA384,
       TLS13_AES_128_GCM_SHA256,
       TLS13_CHACHA20_POLY1305_SHA256,
       TLS_ECDHE_ECDSA_WITH_AES_256_GCM_SHA384,
       TLS_ECDHE_ECDSA_WITH_AES_128_GCM_SHA256,
       TLS_ECDHE_ECDSA_WITH_CHACHA20_POLY1305_SHA256,
       TLS_ECDHE_RSA_WITH_AES_256_GCM_SHA384,
       TLS_ECDHE_RSA_WITH_AES_128_GCM_SHA256,
       TLS_ECDHE_RSA_WITH_CHACHA20_POLY1305_SHA256 >>

\* every instance of SupportedCipherSuite is one of the statics
Suites == Range(ALL_CIPHERSUITES)

\* the suite ids a peer may offer: those of the catalog and one the
\* library does not implement
CipherSuite == {s.suite : s \in Suites} \cup {"TLS_NULL_WITH_NULL_NULL"}

\* the lists over S of length at most n
SeqUpTo(S, n) == UNION {[1..k -> S] : k \in 0..n}

(***************************************************************************)
(* Iterator helpers, computed front to back as the iterators run.          *)
(***************************************************************************)
\* slice.contains(x)
contains(s, x) == \E i \in 1..Len(s) : s[i] = x

\* iter().find(pred), from element i on: the index of the first element
\* whose predicate value pred[i] is true, 0 if there is none
RECURSIVE find(_, _)
find(pred, i) ==
    IF i > Len(pred) THEN 0
    ELSE IF pred[i] THEN i
    ELSE find(pred, i + 1)

\* iter().filter(pred).cloned().collect(), from element i on: the elements
\* of s whose predicate value pred[i] is true, in the order of s
RECURSIVE filter(_, _, _)
filter(s, pred, i) ==
    IF i > Len(s) THEN << >>
    ELSE IF pred[i] THEN <<s[i]>> \o filter(s, pred, i + 1)
    ELSE filter(s, pred, i + 1)

(***************************************************************************)
(* impl SupportedCipherSuite                                               *)
(***************************************************************************)
\* mutant: the peer's order decides
resolve_in_offered_order(self, offered) ==
    IF is_some(self.sign)
    THEN LET our_preference == self.sign.val
         IN  filter(offered,
                    [i \in 1..Len(offered) |-> contains(our_preference, offered[i])],
                    1)
    ELSE << >>

resolve_sig_schemes(self, offered) ==
    IF is_some(self.sign)
    THEN LET our_preference == self.sign.val
         IN  filter(our_preference,
                    [i \in 1..Len(our_preference) |-> contains(offered, our_preference[i])],
                    1)
    ELSE << >>

\* mutant: versions other than TLS1.3 are all taken for TLS1.2
usable_for_version_no_default(self, version) ==
    CASE version = "TLSv1_3" -> is_none(self.build_tls12_encrypter)
      [] OTHER -> is_some(self.build_tls12_encrypter)

usable_for_version(self, version) ==
    CASE version = "TLSv1_3" -> is_none(self.build_tls12_encrypter)
      [] version = "TLSv1_2" -> is_some(self.build_tls12_encrypter)
      [] OTHER -> FALSE

\* mutant: an absent sign list is taken for an empty one
usable_for_sigalg_none_unusable(self, sigalg) ==
    IF is_none(self.sign) THEN FALSE
    ELSE LET schemes == self.sign.val
         IN  \E i \in 1..Len(schemes) : sign(schemes[i]) = sigalg

usable_for_sigalg(self, sigalg) ==
    IF is_none(self.sign) THEN TRUE
    ELSE LET schemes == self.sign.val
         IN  \E i \in 1..Len(schemes) : sign(schemes[i]) = sigalg

\* mutant: TLS1.3 resumption asks for the same suite
can_resume_to_same_suite(self, new_suite) ==
    IF usable_for_version(self, "TLSv1_3") /\ usable_for_version(new_suite, "TLSv1_3")
    THEN self.suite = new_suite.suite
    ELSE IF usable_for_version(self, "TLSv1_2") /\ usable_for_version(new_suite, "TLSv1_2")
    THEN self.suite = new_suite.suite
    ELSE FALSE

\* mutant: the version of the new suite is not looked at
can_resume_to_unchecked_new_suite(self, new_suite) ==
    IF usable_for_version(self, "TLSv1_3")
    THEN self.hash = new_suite.hash
    ELSE IF usable_for_version(self, "TLSv1_2")
    THEN self.suite = new_suite.suite
    ELSE FALSE

\* mutant: TLS1.2 resumption asks for the same hash only
can_resume_to_same_hash(self, new_suite) ==
    IF usable_for_version(self, "TLSv1_3") /\ usable_for_version(new_suite, "TLSv1_3")
    THEN self.hash = new_suite.hash
    ELSE IF usable_for_version(self, "TLSv1_2") /\ usable_for_version(new_suite, "TLSv1_2")
    THEN self.hash = new_suite.hash
    ELSE FALSE

can_resume_to(self, new_suite) ==
    IF usable_for_version(self, "TLSv1_3") /\ usable_for_version(new_suite, "TLSv1_3")
    THEN self.hash = new_suite.hash
    ELSE IF usable_for_version(self, "TLSv1_2") /\ usable_for_version(new_suite, "TLSv1_2")
    THEN self.suite = new_suite.suite
    ELSE FALSE

(***************************************************************************)
(* Negotiation                                                             *)
(***************************************************************************)
RECURSIVE choose_client_from(_, _, _)
choose_client_from(client_suites, server_suites, c) ==
    IF c > Len(client_suites) THEN None
    ELSE LET client_suite == client_suites[c]
             selected == find([i \in 1..Len(server_suites) |->
                                  client_suite = server_suites[i].suite], 1)
         IN  IF selected # 0 THEN Some(server_suites[selected])
             ELSE choose_client_from(client_suites, server_suites, c + 1)

\* mutant: the client's offer is only a filter, the local order decides
choose_client_in_server_order(client_suites, server_suites) ==
    LET selected == find([i \in 1..Len(server_suites) |->
                             contains(client_suites, server_suites[i].suite)], 1)
    IN  IF selected # 0 THEN Some(server_suites[selected]) ELSE None

choose_ciphersuite_preferring_client(client_suites, server_suites) ==
    choose_client_from(client_suites, server_suites, 1)

\* mutant: the local list is only a filter, the client's order decides
choose_server_in_client_order(client_suites, server_suites) ==
    choose_client_from(client_suites, server_suites, 1)

\* mutant: falls back to the most preferred local suite when nothing matches
choose_server_with_fallback(client_suites, server_suites) ==
    LET selected == find([i \in 1..Len(server_suites) |->
                             contains(client_suites, server_suites[i].suite)], 1)
    IN  IF selected # 0 THEN Some(server_suites[selected])
        ELSE IF Len(server_suites) > 0 THEN Some(server_suites[1])
        ELSE None

choose_ciphersuite_preferring_server(client_suites, server_suites) ==
    LET selected == find([i \in 1..Len(server_suites) |->
                             contains(client_suites, server_suites[i].suite)], 1)
    IN  IF selected # 0 THEN Some(server_suites[selected]) ELSE None

(***************************************************************************)
(* Filters                                                                 *)
(***************************************************************************)
reduce_given_sigalg(all, sigalg) ==
    filter(all, [i \in 1..Len(all) |-> usable_for_sigalg(all[i], sigalg)], 1)

\* mutant: the qualifying suites are collected back to front
RECURSIVE filter_reversed(_, _, _)
filter_reversed(s, pred, i) ==
    IF i > Len(s) THEN << >>
    ELSE IF pred[i] THEN filter_reversed(s, pred, i + 1) \o <<s[i]>>
    ELSE filter_reversed(s, pred, i + 1)

reduce_given_version_reversed(all, version) ==
    filter_reversed(all, [i \in 1..Len(all) |-> usable_for_version(all[i], version)], 1)

reduce_given_version(all, version) ==
    filter(all, [i \in 1..Len(all) |-> usable_for_version(all[i], version)], 1)

\* mutant: every suite of the list has to be usable
compatible_sigscheme_for_all_suites(sigscheme, common_suites) ==
    LET sigalg == sign(sigscheme)
    IN  \A i \in 1..Len(common_suites) : usable_for_sigalg(common_suites[i], sigalg)

compatible_sigscheme_for_suites(sigscheme, common_suites) ==
    LET sigalg == sign(sigscheme)
    IN  \E i \in 1..Len(common_suites) : usable_for_sigalg(common_suites[i], sigalg)

(***************************************************************************)
(* The state machine.  Every function of suites.rs is pure and total, so a *)
(* behaviour is one call: the initial state holds the function's name and  *)
(* its arguments, drawn from the bounded sets, and the function's action   *)
(* evaluates it and stores the return value.                               *)
(***************************************************************************)
NegotiateCalls(c) ==
    \E f \in {"choose_ciphersuite_preferring_client",
              "choose_ciphersuite_preferring_server"},
       cs \in SeqUpTo(CipherSuite, MaxOffered),
       ss \in SeqUpTo(Suites, MaxLocal) :
        c = [op |-> f, client_suites |-> cs, server_suites |-> ss]

SuiteCalls(c) ==
    \/ \E s \in Suites, o \in SeqUpTo(SignatureScheme, MaxSchemes) :
        c = [op |-> "resolve_sig_schemes", self |-> s, offered |-> o]
    \/ \E s \in Suites, v \in ProtocolVersion :
        c = [op |-> "usable_for_version", self |-> s, version |-> v]
    \/ \E s \in Suites, a \in SignatureAlgorithm :
        c = [op |-> "usable_for_sigalg", self |-> s, sigalg |-> a]
    \/ \E s \in Suites, n \in Suites :
        c = [op |-> "can_resume_to", self |-> s, new_suite |-> n]

FilterCalls(c) ==
    \/ \E l \in SeqUpTo(Suites, MaxSuites), a \in SignatureAlgorithm :
        c = [op |-> "reduce_given_sigalg", all |-> l, sigalg |-> a]
    \/ \E l \in SeqUpTo(Suites, MaxSuites), v \in ProtocolVersion :
        c = [op |-> "reduce_given_version", all |-> l, version |-> v]
    \/ \E g \in SignatureScheme, l \in SeqUpTo(Suites, MaxSuites) :
        c = [op |-> "compatible_sigscheme_for_suites", sigscheme |-> g, common_suites |-> l]

\* no ClientSession exists
NoSession == [tls_to_write |-> 0, wants_read |-> FALSE, plaintext |-> 0, reads |-> 0]

\* before the call: nothing returned yet
Ready ==
    /\ pc = "call"
    /\ ret = None
    /\ sign_of \in SignTables
    /\ client = NoSession

InitNegotiate == Ready /\ NegotiateCalls(call)

InitSuite == Ready /\ SuiteCalls(call)

InitFilter == Ready /\ FilterCalls(call)

Init == InitNegotiate \/ InitSuite \/ InitFilter \/ (Ready /\ call = [op |-> "communicate"])

Return(f, value) ==
    /\ pc = "call"
    /\ call.op = f
    /\ pc' = "return"
    /\ ret' = value
    /\ UNCHANGED <<call, sign_of, client>>

ChooseClient ==
    Return("choose_ciphersuite_preferring_client",
           choose_ciphersuite_preferring_client(call.client_suites, call.server_suites))

ChooseServer ==
    Return("choose_ciphersuite_preferring_server",
           choose_ciphersuite_preferring_server(call.client_suites, call.server_suites))

ResolveSigSchemes ==
    Return("resolve_sig_schemes", resolve_sig_schemes(call.self, call.offered))

UsableForVersion ==
    Return("usable_for_version", usable_for_version(call.self, call.version))

UsableForSigalg ==
    Return("usable_for_sigalg", usable_for_sigalg(call.self, call.sigalg))

CanResumeTo ==
    Return("can_resume_to", can_resume_to(call.self, call.new_suite))

ReduceGivenSigalg ==
    Return("reduce_given_sigalg", reduce_given_sigalg(call.all, call.sigalg))

ReduceGivenVersion ==
    Return("reduce_given_version", reduce_given_version(call.all, call.version))

CompatibleSigscheme ==
    Return("compatible_sigscheme_for_suites",
           compatible_sigscheme_for_suites(call.sigscheme, call.common_suites))

NextNegotiate == ChooseClient \/ ChooseServer

NextSuite ==
    \/ ResolveSigSchemes
    \/ UsableForVersion
    \/ UsableForSigalg
    \/ CanResumeTo

NextFilter ==
    \/ ReduceGivenSigalg
    \/ ReduceGivenVersion
    \/ CompatibleSigscheme

\* the negotiation functions alone
SpecNegotiate == InitNegotiate /\ [][NextNegotiate]_vars

\* the methods of SupportedCipherSuite alone
SpecSuite == InitSuite /\ [][NextSuite]_vars

\* the list filters alone
SpecFilter == InitFilter /\ [][NextFilter]_vars

\* the function `f` has returned
Returned(f) == pc = "return" /\ call.op = f

(***************************************************************************)
(* The example client: communicate of trytls_shim.rs.                      *)
(*                                                                         *)
(* The session and the socket are the environment of communicate: what     *)
(* each of their calls answers is a choice among the answers their         *)
(* signatures allow.  client.tls_to_write counts the chunks of TLS output  *)
(* waiting for write_tls, client.plaintext the bytes of application data   *)
(* waiting for read, client.reads the non-empty reads of TLS input so far. *)
(* pc is the statement communicate is at.                                  *)
(***************************************************************************)
\* Result<T, E>
Ok(v) == [ok |-> TRUE, val |-> v]
Err(e) == [ok |-> FALSE, err |-> e]

\* enum Verdict
Accept == [verdict |-> "Accept"]
Reject(err) == [verdict |-> "Reject", reason |-> err]

\* the errors process_new_packets raises: the two the shim names and two
\* of the others
TlsError == {"WebPKIError", "AlertReceived", "CorruptMessage", "PeerIncompatibleError"}

\* Session::wants_write / Session::wants_read
wants_write(session) == session.tls_to_write > 0
wants_read(session) == session.wants_read

\* mutant: every error of the handshake layer is a rejection
process_error_always_rejects(err) == Ok(Reject(err))

\* the match on the error of process_new_packets
process_error(err) ==
    IF err \in {"WebPKIError", "AlertReceived"}
    THEN Ok(Reject(err))
    ELSE Err(err)

InitShim ==
    /\ Ready
    /\ call = [op |-> "communicate"]

\* communicate returns `value`
Exit(value) ==
    /\ pc' = "return"
    /\ ret' = value

\* lines 51-56: the name is parsed and the session made (either unwrap may
\* panic), the socket connects (or fails), and the request is buffered in
\* the session, which holds its first flight of TLS output
Connect ==
    /\ call.op = "communicate"
    /\ pc = "call"
    /\ \/ /\ pc' = "panic"
          /\ UNCHANGED <<ret, client>>
       \/ /\ Exit(Err("connect"))
          /\ UNCHANGED client
       \/ /\ Exit(Err("write_all"))
          /\ UNCHANGED client
       \/ \E n \in 1..MaxPending :
            /\ client' = [tls_to_write |-> n, wants_read |-> TRUE,
                          plaintext |-> 0, reads |-> 0]
            /\ pc' = "flush"
            /\ UNCHANGED ret
    /\ UNCHANGED <<call, sign_of>>

\* lines 58-60: one turn of the while loop: write_tls writes some of the
\* pending output, or fails
WriteTls ==
    /\ pc = "flush"
    /\ wants_write(client)
    /\ \/ \E n \in 1..client.tls_to_write :
            /\ client' = [client EXCEPT !.tls_to_write = @ - n]
            /\ UNCHANGED <<pc, ret>>
       \/ /\ Exit(Err("write_tls"))
          /\ UNCHANGED client
    /\ UNCHANGED <<call, sign_of>>

\* lines 58, 62: the while loop ends with nothing left to write; the loop
\* goes on to read_tls when the session wants to read, and starts over
\* when it does not
WantsRead ==
    /\ pc = "flush"
    /\ ~wants_write(client)
    /\ pc' = IF wants_read(client) THEN "read_tls" ELSE "flush"
    /\ UNCHANGED <<call, ret, sign_of, client>>

\* lines 63-65: read_tls reads nothing (the peer closed), fails, or reads
\* some TLS input
ReadTls ==
    /\ pc = "read_tls"
    /\ \/ /\ Exit(Err("Connection closed"))
          /\ UNCHANGED client
       \/ /\ Exit(Err("read_tls"))
          /\ UNCHANGED client
       \/ /\ client.reads < MaxReads
          /\ client' = [client EXCEPT !.reads = @ + 1]
          /\ pc' = "process"
          /\ UNCHANGED ret
    /\ UNCHANGED <<call, sign_of>>

\* lines 67-74: process_new_packets feeds the input to the handshake state
\* machine, which raises an error or goes on: it may queue TLS output,
\* yield application data and want more input or not
ProcessNewPackets ==
    /\ pc = "process"
    /\ \/ \E err \in TlsError :
            /\ Exit(process_error(err))
            /\ UNCHANGED client
       \/ \E w \in 0..MaxPending, d \in 0..1, r \in BOOLEAN :
            /\ client' = [client EXCEPT !.tls_to_write = w,
                                        !.plaintext = d,
                                        !.wants_read = r]
            /\ pc' = "read"
            /\ UNCHANGED ret
    /\ UNCHANGED <<call, sign_of>>

\* lines 76-78: read of one byte of application data: it fails, gives the
\* byte (the verdict is Accept) or gives nothing (the loop starts over)
Read ==
    /\ pc = "read"
    /\ \/ /\ client.plaintext > 0
          /\ client' = [client EXCEPT !.plaintext = @ - 1]
          /\ Exit(Ok(Accept))
       \/ /\ client.plaintext = 0
          /\ pc' = "flush"
          /\ UNCHANGED <<ret, client>>
       \/ /\ client.plaintext = 0
          /\ Exit(Err("read"))
          /\ UNCHANGED client
    /\ UNCHANGED <<call, sign_of>>

NextShim ==
    \/ Connect
    \/ WriteTls
    \/ WantsRead
    \/ ReadTls
    \/ ProcessNewPackets
    \/ Read

\* the example client alone
SpecShim == InitShim /\ [][NextShim]_vars

Next == NextNegotiate \/ NextSuite \/ NextFilter \/ NextShim

\* every function of suites.rs and the example client
Spec == Init /\ [][Next]_vars

(***************************************************************************)
(* Properties of negotiation (checked under SpecNegotiate).                *)
(***************************************************************************)
\* the suite ids of a list of descriptors
SuiteIds(l) == {l[i].suite : i \in 1..Len(l)}

\* the two lists share at least one suite id
Shared(cs, ss) == \E i \in 1..Len(cs) : cs[i] \in SuiteIds(ss)

\* C1: when the offered list and the local list share a suite id,
\* choose_ciphersuite_preferring_client returns a descriptor of the local
\* list whose suite id is the earliest element of the offered list that is
\* present in the local list, whatever the order of the local list.
ClientPrefReturnsEarliestOffered ==
    (Returned("choose_ciphersuite_preferring_client")
        /\ Shared(call.client_suites, call.server_suites))
    => LET cs == call.client_suites
           ss == call.server_suites
       IN  /\ is_some(ret)
           /\ \E j \in 1..Len(ss) : ss[j] = ret.val
           /\ \E i \in 1..Len(cs) :
                /\ cs[i] = ret.val.suite
                /\ \A k \in 1..(i - 1) : cs[k] \notin SuiteIds(ss)

\* C1 witness: offered [X, Y] with local [Y, X] has given X
ClientPrefWitness ==
    /\ Returned("choose_ciphersuite_preferring_client")
    /\ call.client_suites = << "TLS_ECDHE_RSA_WITH_AES_128_GCM_SHA256",
                               "TLS_ECDHE_RSA_WITH_AES_256_GCM_SHA384" >>
    /\ call.server_suites = << TLS_ECDHE_RSA_WITH_AES_256_GCM_SHA384,
                               TLS_ECDHE_RSA_WITH_AES_128_GCM_SHA256 >>
    /\ ret = Some(TLS_ECDHE_RSA_WITH_AES_128_GCM_SHA256)

\* C2: when the offered list and the local list share a suite id,
\* choose_ciphersuite_preferring_server returns the earliest descriptor of
\* the local list whose suite id occurs anywhere in the offered list,
\* whatever the order of the offered list.
ServerPrefReturnsEarliestLocal ==
    (Returned("choose_ciphersuite_preferring_server")
        /\ Shared(call.client_suites, call.server_suites))
    => LET cs == call.client_suites
           ss == call.server_suites
       IN  /\ is_some(ret)
           /\ \E j \in 1..Len(ss) :
                /\ ss[j] = ret.val
                /\ ss[j].suite \in Range(cs)
                /\ \A k \in 1..(j - 1) : ss[k].suite \notin Range(cs)

\* C2 witness: offered [X, Y] with local [Y, X] has given Y
ServerPrefWitness ==
    /\ Returned("choose_ciphersuite_preferring_server")
    /\ call.client_suites = << "TLS_ECDHE_RSA_WITH_AES_128_GCM_SHA256",
                               "TLS_ECDHE_RSA_WITH_AES_256_GCM_SHA384" >>
    /\ call.server_suites = << TLS_ECDHE_RSA_WITH_AES_256_GCM_SHA384,
                               TLS_ECDHE_RSA_WITH_AES_128_GCM_SHA256 >>
    /\ ret = Some(TLS_ECDHE_RSA_WITH_AES_256_GCM_SHA384)

\* C3: when no offered suite id is the suite id of a descriptor of the
\* local list (either list may be empty), both negotiation functions return
\* None.
NoSharedSuiteGivesNone ==
    ((Returned("choose_ciphersuite_preferring_client")
        \/ Returned("choose_ciphersuite_preferring_server"))
        /\ ~Shared(call.client_suites, call.server_suites))
    => ret = None

\* C3 witness: two non-empty, disjoint lists have given None under the
\* server's preference
NoSharedSuiteWitness ==
    /\ Returned("choose_ciphersuite_preferring_server")
    /\ call.client_suites = << "TLS_NULL_WITH_NULL_NULL",
                               "TLS13_AES_128_GCM_SHA256" >>
    /\ call.server_suites = << TLS13_AES_256_GCM_SHA384,
                               TLS_ECDHE_RSA_WITH_AES_128_GCM_SHA256 >>
    /\ ret = None

(***************************************************************************)
(* Properties of the methods of SupportedCipherSuite (checked under        *)
(* SpecSuite).                                                             *)
(***************************************************************************)
\* the descriptor is one of the catalog's TLS1.3 / TLS1.2 descriptors
IsTls13(s) == usable_for_version(s, "TLSv1_3")
IsTls12(s) == usable_for_version(s, "TLSv1_2")

\* C4: for two TLS1.3 descriptors A and B of the catalog, A.can_resume_to(B)
\* is true exactly when A.hash = B.hash, whether or not their suite ids are
\* equal.
Tls13ResumeIffSameHash ==
    (Returned("can_resume_to") /\ IsTls13(call.self) /\ IsTls13(call.new_suite))
    => ret = (call.self.hash = call.new_suite.hash)

\* C4 witness: two TLS1.3 descriptors with different suite ids and the same
\* hash have been found resumable
Tls13ResumeWitness ==
    /\ Returned("can_resume_to")
    /\ call.self = TLS13_CHACHA20_POLY1305_SHA256
    /\ call.new_suite = TLS13_AES_128_GCM_SHA256
    /\ ret = TRUE

\* C5: for two TLS1.2 descriptors A and B of the catalog, A.can_resume_to(B)
\* is true exactly when A.suite = B.suite, even when their hashes are
\* equal; for one TLS1.2 and one TLS1.3 descriptor it is false in both
\* directions.
Tls12ResumeIffSameSuite ==
    Returned("can_resume_to")
    => LET a == call.self
           b == call.new_suite
       IN  /\ (IsTls12(a) /\ IsTls12(b)) => (ret = (a.suite = b.suite))
           /\ (IsTls12(a) /\ IsTls13(b)) => (ret = FALSE)
           /\ (IsTls13(a) /\ IsTls12(b)) => (ret = FALSE)

\* C5 witness: two TLS1.2 descriptors with the same hash and different
\* suite ids have been found not resumable
Tls12ResumeWitness ==
    /\ Returned("can_resume_to")
    /\ call.self = TLS_ECDHE_RSA_WITH_AES_128_GCM_SHA256
    /\ call.new_suite = TLS_ECDHE_ECDSA_WITH_CHACHA20_POLY1305_SHA256
    /\ call.self.hash = call.new_suite.hash
    /\ ret = FALSE

\* C6: every descriptor of ALL_CIPHERSUITES carries either none or both of
\* the TLS1.2 encrypter and decrypter builders; usable_for_version is true
\* exactly for TLSv1_3 when it carries none and exactly for TLSv1_2 when
\* it carries both, and so for exactly one of the protocol versions.
UsableForExactlyOneVersion ==
    Returned("usable_for_version")
    => LET s == call.self
           neither == is_none(s.build_tls12_encrypter) /\ is_none(s.build_tls12_decrypter)
           both == is_some(s.build_tls12_encrypter) /\ is_some(s.build_tls12_decrypter)
       IN  /\ \E i \in 1..Len(ALL_CIPHERSUITES) : ALL_CIPHERSUITES[i] = s
           /\ neither \/ both
           /\ ret = (\/ (neither /\ call.version = "TLSv1_3")
                     \/ (both /\ call.version = "TLSv1_2"))
           /\ Cardinality({v \in ProtocolVersion : usable_for_version(s, v)}) = 1

\* C6 witness: a TLS1.2 descriptor has been found unusable for TLSv1_0
UsableForVersionWitness ==
    /\ Returned("usable_for_version")
    /\ call.self = TLS_ECDHE_ECDSA_WITH_AES_256_GCM_SHA384
    /\ call.version = "TLSv1_0"
    /\ ret = FALSE

\* the position of x in the list s (0 when absent)
IndexOf(s, x) == IF \E i \in 1..Len(s) : s[i] = x
                 THEN CHOOSE i \in 1..Len(s) : s[i] = x
                 ELSE 0

\* C7: resolve_sig_schemes returns the empty list when the descriptor's
\* sign list is absent; otherwise it returns exactly the schemes of the
\* sign list that occur in the offered list, each once, in the order of
\* the sign list and not of the offered list.
ResolveKeepsOwnPreference ==
    Returned("resolve_sig_schemes")
    => IF is_none(call.self.sign) THEN ret = << >>
       ELSE LET pref == call.self.sign.val
            IN  /\ Range(ret) = Range(pref) \cap Range(call.offered)
                /\ \A i, j \in 1..Len(ret) :
                     i < j => IndexOf(pref, ret[i]) < IndexOf(pref, ret[j])

\* C7 witness: descriptor preference [P, Q, R, ..] and offered [R, P] have
\* given [P, R]
ResolveWitness ==
    /\ Returned("resolve_sig_schemes")
    /\ call.self = TLS_ECDHE_ECDSA_WITH_AES_128_GCM_SHA256
    /\ call.offered = << "ECDSA_NISTP384_SHA384", "ED25519" >>
    /\ ret = << "ED25519", "ECDSA_NISTP384_SHA384" >>

\* C8: usable_for_sigalg(alg) is true when the sign list is absent (so for
\* every TLS1.3 suite and every alg), and otherwise exactly when alg is the
\* signing algorithm of a scheme of the sign list: an ECDSA suite of TLS1.2
\* is usable for ECDSA and not for RSA, an RSA suite the other way round.
SigalgUsableIffListed ==
    Returned("usable_for_sigalg")
    => LET s == call.self
           alg == call.sigalg
       IN  /\ IsTls13(s) => ret = TRUE
           /\ is_none(s.sign) => ret = TRUE
           /\ is_some(s.sign) => (ret = (alg \in {sign(x) : x \in Range(s.sign.val)}))
           /\ (s.sign = Some(TLS12_ECDSA_SCHEMES) /\ alg = "RSA") => ret = FALSE
           /\ (s.sign = Some(TLS12_ECDSA_SCHEMES) /\ alg = "ECDSA") => ret = TRUE
           /\ (s.sign = Some(TLS12_RSA_SCHEMES) /\ alg = "ECDSA") => ret = FALSE
           /\ (s.sign = Some(TLS12_RSA_SCHEMES) /\ alg = "RSA") => ret = TRUE

\* C8 witness: an ECDSA suite of TLS1.2 has been found unusable for RSA
SigalgWitness ==
    /\ Returned("usable_for_sigalg")
    /\ call.self = TLS_ECDHE_ECDSA_WITH_CHACHA20_POLY1305_SHA256
    /\ call.sigalg = "RSA"
    /\ ret = FALSE

\* C11: can_resume_to is commutative over the catalog: for every pair of
\* descriptors A and B of ALL_CIPHERSUITES, of the same or of different
\* protocol versions, what A.can_resume_to(B) has returned is what
\* B.can_resume_to(A) returns.
CanResumeToCommutes ==
    Returned("can_resume_to")
    => /\ call.self \in Range(ALL_CIPHERSUITES)
       /\ call.new_suite \in Range(ALL_CIPHERSUITES)
       /\ ret = can_resume_to(call.new_suite, call.self)

\* C11 witness: a TLS1.2 descriptor has been found not to resume to a
\* TLS1.3 descriptor of the same hash and bulk algorithm
CanResumeToCommutesWitness ==
    /\ Returned("can_resume_to")
    /\ call.self = TLS_ECDHE_RSA_WITH_AES_256_GCM_SHA384
    /\ call.new_suite = TLS13_AES_256_GCM_SHA384
    /\ call.self.hash = call.new_suite.hash
    /\ ret = FALSE

(***************************************************************************)
(* Properties of the list filters (checked under SpecFilter).              *)
(***************************************************************************)
\* r is the list of the elements of s at the positions keep, in the order
\* of s: the element at the n-th position of keep is the n-th element of r
IsSubsequenceAt(r, s, keep) ==
    /\ Len(r) = Cardinality(keep)
    /\ \A i \in keep : r[Cardinality({j \in keep : j <= i})] = s[i]

\* C9: reduce_given_version(list, v) returns exactly the descriptors of the
\* list usable for version v, and reduce_given_sigalg(list, alg) exactly
\* those usable for alg, in the relative order of the list; the result is
\* empty only when no entry of the list qualifies.
ReduceKeepsQualifyingInOrder ==
    /\ Returned("reduce_given_version")
       => LET keep == {i \in 1..Len(call.all) :
                           usable_for_version(call.all[i], call.version)}
          IN  /\ IsSubsequenceAt(ret, call.all, keep)
              /\ (ret = << >>) = (keep = {})
    /\ Returned("reduce_given_sigalg")
       => LET keep == {i \in 1..Len(call.all) :
                           usable_for_sigalg(call.all[i], call.sigalg)}
          IN  /\ IsSubsequenceAt(ret, call.all, keep)
              /\ (ret = << >>) = (keep = {})

\* C9 witness: of a list of three descriptors, the first and the last are
\* usable for the version and have been returned in that order
ReduceWitness ==
    /\ Returned("reduce_given_version")
    /\ call.all = << TLS_ECDHE_RSA_WITH_AES_128_GCM_SHA256,
                     TLS13_AES_128_GCM_SHA256,
                     TLS_ECDHE_ECDSA_WITH_AES_256_GCM_SHA384 >>
    /\ call.version = "TLSv1_2"
    /\ ret = << TLS_ECDHE_RSA_WITH_AES_128_GCM_SHA256,
                TLS_ECDHE_ECDSA_WITH_AES_256_GCM_SHA384 >>

\* C10: compatible_sigscheme_for_suites(scheme, list) is true exactly when
\* at least one descriptor of the list is usable_for_sigalg for the signing
\* algorithm of the scheme; it is false for the empty list.
CompatibleIffSomeSuiteUsable ==
    Returned("compatible_sigscheme_for_suites")
    => LET usable == {i \in 1..Len(call.common_suites) :
                          usable_for_sigalg(call.common_suites[i], sign(call.sigscheme))}
       IN  /\ ret = (Cardinality(usable) >= 1)
           /\ call.common_suites = << >> => ret = FALSE

\* C10 witness: an RSA scheme has been found compatible with a list whose
\* last descriptor alone is usable for RSA
CompatibleWitness ==
    /\ Returned("compatible_sigscheme_for_suites")
    /\ call.sigscheme = "RSA_PSS_SHA256"
    /\ call.common_suites = << TLS_ECDHE_ECDSA_WITH_AES_128_GCM_SHA256,
                               TLS_ECDHE_RSA_WITH_AES_128_GCM_SHA256 >>
    /\ ret = TRUE

(***************************************************************************)
(* Properties of the example client's handshake loop (checked under        *)
(* SpecShim).                                                              *)
(***************************************************************************)
\* the errors of the handshake layer that the shim takes for a rejection
RejectingErrors == {"WebPKIError", "AlertReceived"}

\* communicate has returned from inside its loop
ReturnedFromLoop ==
    /\ Returned("communicate")
    /\ ret \notin {Err("connect"), Err("write_all")}

\* C12 as stated: the loop of communicate stops only when application data
\* arrives, with the verdict Accept, or when the handshake layer raises a
\* WebPKI or alert-received error, with the verdict Reject.
LoopStopsOnlyWithVerdict ==
    ReturnedFromLoop
    => \/ ret = Ok(Accept)
       \/ \E err \in RejectingErrors : ret = Ok(Reject(err))

\* C12 as amended: every turn of the loop first flushes all pending TLS
\* output, then, when the session wants to read, reads TLS input and feeds
\* it to the handshake state machine, then reads application data and
\* starts over when there is none.  The loop stops with Accept exactly
\* when application data has arrived and with Reject exactly when the
\* handshake layer raises a WebPKI or alert-received error; it also stops
\* with an error and no verdict when write_tls, read_tls or read fails,
\* when read_tls reads nothing (connection closed) and when the handshake
\* layer raises any other error.
LoopStepsAndStops ==
    [][ /\ (pc' = "read_tls" /\ pc # "read_tls")
           => (pc = "flush" /\ ~wants_write(client) /\ wants_read(client))
        /\ (pc' = "process" /\ pc # "process")
           => (pc = "read_tls" /\ client'.reads = client.reads + 1)
        /\ (pc' = "read" /\ pc # "read") => pc = "process"
        /\ (pc' = "flush" /\ pc # "flush") => pc \in {"call", "read"}
        /\ (pc = "flush" /\ pc' = "flush")
           => (wants_write(client) \/ ~wants_read(client))
        /\ (pc' = "return" /\ pc \in {"flush", "read_tls", "process", "read"})
           => /\ (ret' = Ok(Accept)) = (pc = "read" /\ client.plaintext > 0)
              /\ (\E err \in TlsError : ret' = Ok(Reject(err)))
                 = (\E err \in RejectingErrors :
                        pc = "process" /\ ret' = Ok(Reject(err)))
              /\ ret'.ok \/ \/ pc = "flush" /\ ret' = Err("write_tls")
                            \/ pc = "read_tls"
                                 /\ ret' \in {Err("Connection closed"), Err("read_tls")}
                            \/ pc = "process"
                                 /\ \E err \in TlsError \ RejectingErrors : ret' = Err(err)
                            \/ pc = "read" /\ client.plaintext = 0 /\ ret' = Err("read")
      ]_vars

\* C12 witness: after a full turn of the loop the peer has closed the
\* connection and communicate has returned an error, no verdict
LoopStopsWithoutVerdictWitness ==
    /\ Returned("communicate")
    /\ client.reads >= 1
    /\ client.tls_to_write = 0
    /\ ret = Err("Connection closed")

====
